---- MODULE Spec2Model ----
(***************************************************************************)
(* Vacation-request store (db.py) and the Streamlit front end (app.py).    *)
(* The store is the SQLite table `vacations` plus the roster `employees`;  *)
(* every operation of db.py opens a connection, runs its statements and    *)
(* commits, so each operation is one atomic step.                          *)
(***************************************************************************)
EXTENDS Integers, Sequences, FiniteSets, TLC

VARIABLES
    vacations,  \* table vacations: id -> row
    seq,        \* sqlite_sequence of vacations (AUTOINCREMENT): last id handed out
    employees,  \* table employees: name -> active (0/1)
    last,       \* the last call on the vacations table, its arguments and outcome
    pending,    \* app.py: per manager session, the rows of `pending` it iterates
    mine        \* app.py: per employee session, the rows of `mine` shown with Cancelar

vars == <<vacations, seq, employees, last, pending, mine>>

\* ------------------------------------------------------------------ bounds

\* At most this many rows are ever inserted into vacations.
MaxRequests == 2

\* ------------------------------------------------------------------ values

\* Python None / SQL NULL in a text column or argument.
None == "<None>"

\* datetime.utcnow() stamped by update_status; only its being non-null is observed.
Now == "<utcnow>"

Statuses == {"pendiente", "aprobada", "rechazada"}

\* Status arguments a caller may pass: the three of the CHECK and one outside it.
StatusArgs == Statuses \cup {"cancelada"}

\* Owners of requests (free text, uppercased by the form).
Employees == {"ANA", "BOB"}

\* Names seeded into the roster by ensure_employees.
SeedNames == {"ANA"}

\* Approver arguments of update_status.
Approvers == {None, "X"}

Notes == {None, "n"}

\* Dates are <<year, month, day>>. They are stored as ISO text 'YYYY-MM-DD'.
Dates == {<<2023, 12, 31>>, <<2024, 1, 31>>, <<2024, 2, 1>>}

\* The ranges stored where the calendar is read: across the year boundary and
\* the whole of January, across a month boundary, and a single day.
Ranges ==
    {<<<<2023, 12, 31>>, <<2024, 1, 31>>>>,
     <<<<2024, 1, 31>>, <<2024, 2, 1>>>>,
     <<<<2024, 2, 1>>, <<2024, 2, 1>>>>}

\* The ranges stored where the overlap check is read: Ranges and one whose start
\* is after its end, which create_request does not refuse.
OverlapRanges == Ranges \cup {<<<<2024, 2, 1>>, <<2023, 12, 31>>>>}

\* The dates picked in the form, and passed to create_request beside it.
FormDates == {<<2024, 1, 31>>, <<2024, 2, 1>>}

\* The date and the note used where only status and owner are observed.
LifeDates == {<<2024, 1, 31>>}

LifeNotes == {None}

NoDate == <<0, 0, 0>>

\* Queried years and months; 0 stands for an omitted (None) or zero argument,
\* both falsy in `if year and month`.
Years == {0, 2023, 2024}

Months == {0, 1, 2, 12}

\* ------------------------------------------------------------------ dates

\* date.__lt__: chronological order of two date objects.
DateLT(a, b) ==
    \/ a[1] < b[1]
    \/ a[1] = b[1] /\ a[2] < b[2]
    \/ a[1] = b[1] /\ a[2] = b[2] /\ a[3] < b[3]

DateLE(a, b) == a = b \/ DateLT(a, b)

DateMax(a, b) == IF DateLT(a, b) THEN b ELSE a

DateMin(a, b) == IF DateLT(b, a) THEN b ELSE a

IsLeap(y) == (y % 4 = 0 /\ y % 100 # 0) \/ y % 400 = 0

\* calendar.monthrange(year, month)[1]
monthrange(y, m) ==
    IF m = 2 THEN (IF IsLeap(y) THEN 29 ELSE 28)
    ELSE IF m \in {4, 6, 9, 11} THEN 30 ELSE 31

\* cur += timedelta(days=1)
NextDay(d) ==
    IF d[3] < monthrange(d[1], d[2]) THEN <<d[1], d[2], d[3] + 1>>
    ELSE IF d[2] < 12 THEN <<d[1], d[2] + 1, 1>>
    ELSE <<d[1] + 1, 1, 1>>

\* daterange(d0, d1): the dates d0, d0+1, ... up to d1, in order.
RECURSIVE daterange(_, _)
daterange(d0, d1) ==
    IF DateLE(d0, d1) THEN <<d0>> \o daterange(NextDay(d0), d1) ELSE <<>>

\* ------------------------------------------------------------------ text

\* Text is a sequence of code points: '0'..'9' are 48..57 and '-' is 45.
Pow10(n) == CASE n = 0 -> 1 [] n = 1 -> 10 [] n = 2 -> 100 [] n = 3 -> 1000

\* f"{n:0wd}" for 0 <= n < 10^w: n in decimal, zero-padded to w digits.
Pad(n, w) == [i \in 1 .. w |-> 48 + ((n \div Pow10(w - i)) % 10)]

\* The sqlite3 date adapter: date.isoformat(), 'YYYY-MM-DD'.
Iso(d) == Pad(d[1], 4) \o <<45>> \o Pad(d[2], 2) \o <<45>> \o Pad(d[3], 2)

\* SQLite's BINARY collation on TEXT: a < b, byte by byte, a proper prefix first.
TextLT(a, b) ==
    \/ \E k \in 1 .. Len(a) :
          /\ k <= Len(b)
          /\ a[k] < b[k]
          /\ \A j \in 1 .. (k - 1) : a[j] = b[j]
    \/ /\ Len(a) < Len(b)
       /\ \A j \in 1 .. Len(a) : a[j] = b[j]

\* strftime('%Y', d) and strftime('%m', d) on a stored ISO date.
StrfYear(d) == SubSeq(Iso(d), 1, 4)

StrfMonth(d) == SubSeq(Iso(d), 6, 7)

\* ------------------------------------------------------------------ store

Ids == DOMAIN vacations

\* Python truthiness of an optional string argument: None and "" are falsy.
Truthy(s) == s # None /\ s # ""

Row(emp, s, e, st, note, by, at) ==
    [employee |-> emp, start_date |-> s, end_date |-> e, status |-> st,
     note |-> note, approved_by |-> by, approved_at |-> at]

Call(op, id, emp, s, e, st, note, by, err, warned) ==
    [op |-> op, id |-> id, employee |-> emp, start_date |-> s, end_date |-> e,
     status |-> st, note |-> note, approver |-> by, err |-> err, warned |-> warned]

\* Variant of CheckStatus: the column declared without its CHECK.
CheckStatusAbsent(st) == TRUE

\* status TEXT NOT NULL CHECK(status IN ('pendiente','aprobada','rechazada'))
CheckStatus(st) == st \in Statuses

\* Variant of Scan: the table read from the highest rowid down.
RECURSIVE ScanDownFrom(_)
ScanDownFrom(i) ==
    IF i < 1 THEN <<>>
    ELSE (IF i \in DOMAIN vacations THEN <<i>> ELSE <<>>) \o ScanDownFrom(i - 1)

ScanDescending == ScanDownFrom(seq)

\* Rows in the order a SELECT without ORDER BY scans the table: by rowid.
RECURSIVE ScanFrom(_)
ScanFrom(i) ==
    IF i > seq THEN <<>>
    ELSE (IF i \in Ids THEN <<i>> ELSE <<>>) \o ScanFrom(i + 1)

Scan == ScanFrom(1)

\* Variant of OverlapStatuses: include_pending ignored.
OverlapStatusesAlways(include_pending) == {"aprobada", "pendiente"}

\* The statuses has_overlap_for_employee puts in its IN (...) list.
OverlapStatuses(include_pending) ==
    IF include_pending THEN {"aprobada", "pendiente"} ELSE {"aprobada"}

\* SELECT COUNT(*) ... WHERE employee=? AND status IN (...)
\*   AND NOT (end_date < ? OR start_date > ?);  returns cnt > 0
has_overlap_for_employee(emp, s, e, include_pending) ==
    Cardinality({i \in Ids :
        /\ vacations[i].employee = emp
        /\ vacations[i].status \in OverlapStatuses(include_pending)
        /\ ~(\/ TextLT(Iso(vacations[i].end_date), Iso(s))
             \/ TextLT(Iso(e), Iso(vacations[i].start_date)))
    }) > 0

\* The row INSERT INTO vacations(employee, start_date, end_date, status, note) adds.
InsertedRow(emp, s, e, note) == Row(emp, s, e, "pendiente", note, None, None)

\* The table after the INSERT: the new row gets the next AUTOINCREMENT id.
Inserted(emp, s, e, note) ==
    [i \in Ids \cup {seq + 1} |->
        IF i = seq + 1 THEN InsertedRow(emp, s, e, note) ELSE vacations[i]]

\* create_request(employee, start_date, end_date, note): its effect on the table.
create_request(emp, s, e, note) ==
    /\ seq < MaxRequests
    /\ seq' = seq + 1
    /\ vacations' = Inserted(emp, s, e, note)

\* The approved_by value the UPDATE of update_status binds.
StampedBy(new_status, approver) == approver

\* The approved_at value the UPDATE of update_status binds.
StampedAt(new_status) ==
    IF new_status \in {"aprobada", "rechazada"} THEN Now ELSE None

\* The table after UPDATE vacations SET status=?, approved_by=?, approved_at=? WHERE id=?
\* when no constraint stops it.
Updated(id, new_status, approver) ==
    [i \in Ids |->
        IF i = id
        THEN [vacations[i] EXCEPT !.status = new_status,
                                  !.approved_by = StampedBy(new_status, approver),
                                  !.approved_at = StampedAt(new_status)]
        ELSE vacations[i]]

\* Whether the UPDATE raises sqlite3.IntegrityError: a row it writes fails the CHECK.
UpdateFails(id, new_status) == id \in Ids /\ ~CheckStatus(new_status)

\* update_status(vacation_id, new_status, approver): its effect on the table. A
\* failing statement is backed out, the exception propagates and get_conn's
\* finally commits nothing new.
update_status(id, new_status, approver) ==
    /\ vacations' = IF UpdateFails(id, new_status) THEN vacations
                    ELSE Updated(id, new_status, approver)
    /\ UNCHANGED seq

\* Variant of DeleteMatches: the owner's DELETE without its status='pendiente' test.
DeleteMatchesAnyStatus(id, employee) ==
    IF employee # None /\ employee # ""
    THEN {i \in DOMAIN vacations : i = id /\ vacations[i].employee = employee}
    ELSE {i \in DOMAIN vacations : i = id}

\* The rows the DELETE of delete_request matches.
DeleteMatches(id, employee) ==
    IF Truthy(employee)
    THEN {i \in Ids : i = id /\ vacations[i].employee = employee
                             /\ vacations[i].status = "pendiente"}
    ELSE {i \in Ids : i = id}

\* delete_request(vacation_id, employee=None): its effect on the table.
delete_request(id, employee) ==
    /\ vacations' = [i \in Ids \ DeleteMatches(id, employee) |-> vacations[i]]
    /\ UNCHANGED seq

\* The record of a call of each of the three, as `last` keeps it.
CreateCall(emp, s, e, note) ==
    Call("create_request", seq + 1, emp, s, e, None, note, None, FALSE, FALSE)

UpdateCall(id, new_status, approver) ==
    Call("update_status", id, None, NoDate, NoDate, new_status, None, approver,
         UpdateFails(id, new_status), FALSE)

DeleteCall(id, employee) ==
    Call("delete_request", id, employee, NoDate, NoDate, None, None, None, FALSE, FALSE)

\* A call of one of the store's request operations, recorded in `last`.
CallCreate(emp, s, e, note) ==
    /\ create_request(emp, s, e, note)
    /\ last' = CreateCall(emp, s, e, note)
    /\ UNCHANGED <<employees, pending, mine>>

CallUpdate(id, new_status, approver) ==
    /\ update_status(id, new_status, approver)
    /\ last' = UpdateCall(id, new_status, approver)
    /\ UNCHANGED <<employees, pending, mine>>

CallDelete(id, employee) ==
    /\ delete_request(id, employee)
    /\ last' = DeleteCall(id, employee)
    /\ UNCHANGED <<employees, pending, mine>>

\* The same operations with no record kept, where only the tables are read.
Create(emp, s, e, note) ==
    create_request(emp, s, e, note) /\ UNCHANGED <<employees, last, pending, mine>>

Update(id, new_status, approver) ==
    update_status(id, new_status, approver) /\ UNCHANGED <<employees, last, pending, mine>>

Delete(id, employee) ==
    delete_request(id, employee) /\ UNCHANGED <<employees, last, pending, mine>>

\* ------------------------------------------------------------------ queries

\* Stable insertion of row i into a sequence of rows ordered by start_date.
RECURSIVE InsertByStart(_, _)
InsertByStart(i, rows) ==
    IF rows = <<>> THEN <<i>>
    ELSE IF TextLT(Iso(vacations[i].start_date), Iso(vacations[Head(rows)].start_date))
         THEN <<i>> \o rows
         ELSE <<Head(rows)>> \o InsertByStart(i, Tail(rows))

\* ORDER BY start_date ASC over rows fetched in scan order.
RECURSIVE OrderByStart(_)
OrderByStart(rows) ==
    IF rows = <<>> THEN <<>>
    ELSE InsertByStart(rows[Len(rows)], OrderByStart(SubSeq(rows, 1, Len(rows) - 1)))

\* The WHERE clause list_requests builds for one row.
ListFilter(i, year, month, status) ==
    /\ (year # 0 /\ month # 0) =>
          /\ StrfYear(vacations[i].start_date) = Pad(year, 4)
          /\ \/ StrfMonth(vacations[i].start_date) = Pad(month, 2)
             \/ StrfMonth(vacations[i].end_date) = Pad(month, 2)
    /\ Truthy(status) => vacations[i].status = status

\* list_requests(year, month, status): the ids of the rows returned, in order.
list_requests(year, month, status) ==
    OrderByStart(SelectSeq(Scan, LAMBDA i : ListFilter(i, year, month, status)))

\* list_employees(active_only)
list_employees(active_only) ==
    {n \in DOMAIN employees : active_only => employees[n] = 1}

\* Variant of MonthRows: only the rows that start inside the month.
MonthRowsStartingInside(start, end) ==
    SelectSeq(Scan, LAMBDA i :
        ~(\/ TextLT(Iso(vacations[i].start_date), Iso(start))
          \/ TextLT(Iso(end), Iso(vacations[i].start_date))))

\* The rows get_calendar_matrix fetches: WHERE NOT (end_date < ? OR start_date > ?),
\* with no ORDER BY.
MonthRows(start, end) ==
    SelectSeq(Scan, LAMBDA i :
        ~(\/ TextLT(Iso(vacations[i].end_date), Iso(start))
          \/ TextLT(Iso(end), Iso(vacations[i].start_date))))

\* The days of the month one fetched row marks: daterange(max(s, start), min(e, end)).
MarkedDays(i, start, end) ==
    LET ds == daterange(DateMax(vacations[i].start_date, start),
                        DateMin(vacations[i].end_date, end))
    IN {ds[k][3] : k \in 1 .. Len(ds)}

\* One pass of `for r in rows`: matrix[emp][d.day] = status where emp is a row.
RECURSIVE Paint(_, _, _, _)
Paint(matrix, rows, start, end) ==
    IF rows = <<>> THEN matrix
    ELSE LET i == Head(rows)
             days == MarkedDays(i, start, end)
             painted == [emp \in DOMAIN matrix |->
                            [d \in DOMAIN matrix[emp] |->
                                IF emp = vacations[i].employee /\ d \in days
                                THEN vacations[i].status
                                ELSE matrix[emp][d]]]
         IN Paint(painted, Tail(rows), start, end)

\* get_calendar_matrix(year, month) -> (matrix, days)
get_calendar_matrix(year, month) ==
    LET days == monthrange(year, month)
        start == <<year, month, 1>>
        end == <<year, month, days>>
        blank == [emp \in list_employees(TRUE) |-> [d \in 1 .. days |-> None]]
    IN [matrix |-> Paint(blank, MonthRows(start, end), start, end), days |-> days]

\* ------------------------------------------------------------------ roster

\* add_employee(name): INSERT OR IGNORE INTO employees(name, active) VALUES (?,1)
add_employee(name) ==
    /\ employees' = IF name \in DOMAIN employees THEN employees
                    ELSE [n \in DOMAIN employees \cup {name} |->
                             IF n = name THEN 1 ELSE employees[n]]
    /\ UNCHANGED <<vacations, seq, last, pending, mine>>

\* set_employee_active(name, active): UPDATE employees SET active=? WHERE name=?
set_employee_active(name, active) ==
    /\ employees' = [n \in DOMAIN employees |->
                        IF n = name THEN (IF active THEN 1 ELSE 0) ELSE employees[n]]
    /\ UNCHANGED <<vacations, seq, last, pending, mine>>

\* ------------------------------------------------------------------ app.py

\* Manager sessions (auth["name"] of a responsable) and employee sessions.
Managers == {"X", "Y"}

Users == {"ANA"}

\* What is typed into the form's Empleado field.
FormTexts == {"ana", "BOB"}

\* What the employee sessions of Users type there.
AppTexts == {"ana"}

\* The note text_area of the form.
FormNotes == {"n"}

\* str.upper() on the names used.
Upper(text) ==
    CASE text = "ana" -> "ANA"
      [] text = "bob" -> "BOB"
      [] OTHER -> text

\* d0, d1 = sorted(date_range)
SortedRange(a, b) == IF DateLT(b, a) THEN <<b, a>> ELSE <<a, b>>

\* Variant of FormInserts: the form stops at the overlap warning.
FormInsertsUnlessOverlap(overlap) == ~overlap

\* Whether the form goes on to create_request after the overlap check: the check
\* only shows a warning.
FormInserts(overlap) == TRUE

\* The form solicitud_vacaciones, submitted with a two-date range.
solicitud_vacaciones(text, a, b, note) ==
    LET employee == Upper(text)
        d == SortedRange(a, b)
        overlap == has_overlap_for_employee(employee, d[1], d[2], TRUE)
    IN /\ seq < MaxRequests
       /\ IF FormInserts(overlap)
          THEN create_request(employee, d[1], d[2], note)
          ELSE UNCHANGED <<vacations, seq>>
       /\ last' = Call("solicitud_vacaciones", seq + 1, employee, d[1], d[2], None,
                       note, None, FALSE, overlap)
       /\ UNCHANGED <<employees, pending, mine>>

\* Aprobaciones pendientes: pending = list_requests(status="pendiente")
PanelList(m) ==
    LET rows == list_requests(0, 0, "pendiente")
    IN /\ pending' = [pending EXCEPT ![m] = {rows[k] : k \in 1 .. Len(rows)}]
       /\ pending' # pending
       /\ UNCHANGED <<vacations, seq, employees, last, mine>>

\* The status the Aprobar button writes.
AprobarStatus == "aprobada"

\* Variant of RechazarStatus: rejecting puts the request back to pending.
RechazarReopens == "pendiente"

\* The status the Rechazar button writes.
RechazarStatus == "rechazada"

\* A button of the approval panel: update_status(r["id"], status, approver=auth["name"]),
\* then st.experimental_rerun() ends this run of the script.
PanelButton(m, id, status) ==
    /\ id \in pending[m]
    /\ update_status(id, status, m)
    /\ last' = UpdateCall(id, status, m)
    /\ pending' = [pending EXCEPT ![m] = {}]
    /\ UNCHANGED <<employees, mine>>

Aprobar(m, id) == PanelButton(m, id, AprobarStatus)

Rechazar(m, id) == PanelButton(m, id, RechazarStatus)

\* Mis solicitudes: the rows of list_requests() owned by the user that show Cancelar.
MineList(u) ==
    LET rows == list_requests(0, 0, None)
    IN /\ mine' = [mine EXCEPT ![u] =
                      {rows[k] : k \in {j \in 1 .. Len(rows) :
                          /\ vacations[rows[j]].employee = Upper(u)
                          /\ vacations[rows[j]].status = "pendiente"}}]
       /\ mine' # mine
       /\ UNCHANGED <<vacations, seq, employees, last, pending>>

\* Cancelar: delete_request(r["id"], employee=auth["name"].upper()), then rerun.
Cancelar(u, id) ==
    /\ id \in mine[u]
    /\ delete_request(id, Upper(u))
    /\ last' = DeleteCall(id, Upper(u))
    /\ mine' = [mine EXCEPT ![u] = {}]
    /\ UNCHANGED <<employees, pending>>

\* ------------------------------------------------------------------ behaviour

\* After init_db() and ensure_employees(seed) on a fresh database file.
Init ==
    /\ vacations = <<>>
    /\ seq = 0
    /\ employees = [n \in SeedNames |-> 1]
    /\ last = Call("init_db", 0, None, NoDate, NoDate, None, None, None, FALSE, FALSE)
    /\ pending = [m \in Managers |-> {}]
    /\ mine = [u \in Users |-> {}]

\* Ids a caller may name: every id handed out so far and one never handed out.
CallIds == 1 .. (MaxRequests + 1)

\* The store's request operations called with any id, status, approver and
\* employee argument.
Next ==
    \/ \E emp \in Employees, s \in LifeDates, e \in LifeDates, note \in LifeNotes :
          CallCreate(emp, s, e, note)
    \/ \E id \in CallIds, st \in StatusArgs, by \in Approvers :
          CallUpdate(id, st, by)
    \/ \E id \in CallIds, emp \in Employees \cup {None, ""} :
          CallDelete(id, emp)

Spec == Init /\ [][Next]_vars

\* Requests created directly and through the form, over ranges in either order
\* and with or without a note; a manager decides some.
CreateNext ==
    \/ \E emp \in Employees, s \in FormDates, e \in FormDates, note \in Notes :
          CallCreate(emp, s, e, note)
    \/ \E text \in FormTexts, a \in FormDates, b \in FormDates, note \in FormNotes :
          solicitud_vacaciones(text, a, b, note)
    \/ \E id \in 1 .. MaxRequests, st \in {"aprobada", "rechazada"} :
          CallUpdate(id, st, "X")

CreateSpec == Init /\ [][CreateNext]_vars

\* The store as the calendar reads it: requests over Ranges, decided or deleted
\* by a manager, an employee added to the roster and switched off and on.
CalendarNext ==
    \/ \E emp \in Employees, r \in Ranges :
          Create(emp, r[1], r[2], None)
    \/ \E id \in 1 .. MaxRequests, st \in {"aprobada", "rechazada"} :
          Update(id, st, "X")
    \/ \E id \in 1 .. MaxRequests :
          Delete(id, None)
    \/ \E n \in Employees :
          add_employee(n)
    \/ \E n \in Employees \ SeedNames, active \in BOOLEAN :
          set_employee_active(n, active)

CalendarSpec == Init /\ [][CalendarNext]_vars

\* The store as the overlap check reads it: requests of both employees over
\* OverlapRanges, moved between the three statuses.
OverlapNext ==
    \/ \E emp \in Employees, r \in OverlapRanges :
          Create(emp, r[1], r[2], None)
    \/ \E id \in 1 .. MaxRequests, st \in Statuses :
          Update(id, st, "X")
    \/ \E id \in 1 .. MaxRequests :
          Delete(id, None)

OverlapSpec == Init /\ [][OverlapNext]_vars

\* The store as app.py drives it: sessions of managers and employees interleave
\* at the granularity of the store's operations.
AppNext ==
    \/ \E text \in AppTexts, a \in LifeDates, b \in LifeDates, note \in FormNotes :
          solicitud_vacaciones(text, a, b, note)
    \/ \E m \in Managers : PanelList(m)
    \/ \E m \in Managers, id \in 1 .. MaxRequests : Aprobar(m, id)
    \/ \E m \in Managers, id \in 1 .. MaxRequests : Rechazar(m, id)
    \/ \E u \in Users : MineList(u)
    \/ \E u \in Users, id \in 1 .. MaxRequests : Cancelar(u, id)

AppSpec == Init /\ [][AppNext]_vars

\* ------------------------------------------------------------------ properties

\* The set of elements of a sequence.
Range(f) == {f[k] : k \in 1 .. Len(f)}

\* Year/month pairs the calendar and list_requests are queried with.
QueryYears == Years \ {0}

QueryMonths == Months \ {0}

\* Whether date d lies in calendar month `month` of year `year`.
InMonth(d, year, month) == d[1] = year /\ d[2] = month

\* Whether the inclusive range of row i contains date d, chronologically.
Covers(i, d) == DateLE(vacations[i].start_date, d) /\ DateLE(d, vacations[i].end_date)

\* The row update_status was last called on.
Target == vacations[last.id]

\* C1: after update_status(id, 'aprobada' | 'rechazada', X) on an existing id the
\* row has approved_by = X and a non-null approved_at; after
\* update_status(id, 'pendiente', X) both approved_by and approved_at are null,
\* whatever X was.
C1_StampsOrClearsApproval ==
    (last.op = "update_status" /\ last.id \in Ids /\ last.status \in Statuses) =>
        IF last.status \in {"aprobada", "rechazada"}
        THEN Target.approved_by = last.approver /\ Target.approved_at # None
        ELSE Target.approved_by = None /\ Target.approved_at = None

\* C2: a delete_request(id, emp) step with an employee value supplied removes
\* row id if and only if it exists, is owned by emp and is pending; in every
\* other case the table is unchanged (and no error is raised).
C2_DeleteIffOwnPending ==
    [][\A id \in CallIds, emp \in Employees \cup {""} :
          (last'.op = "delete_request" /\ last'.id = id /\ last'.employee = emp) =>
              /\ ~last'.err
              /\ vacations' =
                    IF /\ id \in Ids
                       /\ vacations[id].employee = emp
                       /\ vacations[id].status = "pendiente"
                    THEN [i \in Ids \ {id} |-> vacations[i]]
                    ELSE vacations]_vars

\* C3: list_requests(year, month, status) returns exactly the rows whose
\* start_date or end_date falls in that month of that year (and whose status is
\* the one asked for, when one is), ordered by start_date ascending.
C3_ListByMonth ==
    \A year \in QueryYears, month \in QueryMonths, status \in Statuses \cup {None} :
        LET rows == list_requests(year, month, status)
        IN /\ Range(rows) =
                 {i \in Ids :
                    /\ \/ InMonth(vacations[i].start_date, year, month)
                       \/ InMonth(vacations[i].end_date, year, month)
                    /\ status # None => vacations[i].status = status}
           /\ Len(rows) = Cardinality(Range(rows))
           /\ \A j \in 1 .. Len(rows), k \in 1 .. Len(rows) :
                 j < k => DateLE(vacations[rows[j]].start_date,
                                 vacations[rows[k]].start_date)

\* C4: has_overlap_for_employee(emp, s, e, include_pending) is true if and only if
\* some row of emp with status aprobada (or pendiente, when include_pending) has
\* not (end < s or start > e) as dates; other employees' rows and rejected rows
\* never count.
C4_OverlapIff ==
    \A emp \in Employees, s \in Dates, e \in Dates, include_pending \in BOOLEAN :
        has_overlap_for_employee(emp, s, e, include_pending) <=>
            \E i \in Ids :
                /\ vacations[i].employee = emp
                /\ \/ vacations[i].status = "aprobada"
                   \/ include_pending /\ vacations[i].status = "pendiente"
                /\ ~(DateLT(vacations[i].end_date, s) \/ DateLT(e, vacations[i].start_date))

\* C4's case: a range that only a pending row of the employee overlaps, while a
\* rejected row of the same employee overlaps it too.
C4_PendingOnlyMatch ==
    \E emp \in Employees, s \in Dates, e \in Dates :
        /\ has_overlap_for_employee(emp, s, e, TRUE)
        /\ ~has_overlap_for_employee(emp, s, e, FALSE)
        /\ \E i \in Ids : /\ vacations[i].employee = emp
                          /\ vacations[i].status = "rechazada"
                          /\ Covers(i, s)

\* Days in the queried months, from the calendar.
DaysInMonth(year, month) ==
    CASE month = 1 -> 31
      [] month = 12 -> 31
      [] month = 2 /\ year = 2024 -> 29
      [] month = 2 /\ year = 2023 -> 28

\* The rows of employee emp that cover day d of the queried month.
Covering(emp, year, month, d) ==
    {i \in Ids : vacations[i].employee = emp /\ Covers(i, <<year, month, d>>)}

\* C5: the matrix has one row per active employee and no other, each with the
\* days 1..daysInMonth; a cell is non-empty exactly when some row of the table
\* for that employee covers that day, and equals that row's status when it is
\* the only one.
C5_MatrixMarksCoveredDays ==
    \A year \in QueryYears, month \in QueryMonths :
        LET r == get_calendar_matrix(year, month)
        IN /\ r.days = DaysInMonth(year, month)
           /\ DOMAIN r.matrix = {n \in DOMAIN employees : employees[n] = 1}
           /\ \A emp \in DOMAIN r.matrix :
                 /\ DOMAIN r.matrix[emp] = 1 .. DaysInMonth(year, month)
                 /\ \A d \in 1 .. DaysInMonth(year, month) :
                       LET c == Covering(emp, year, month, d)
                       IN /\ r.matrix[emp][d] # None <=> c # {}
                          /\ \A i \in c : c = {i} => r.matrix[emp][d] = vacations[i].status

\* C5's case: an approved request of an active employee from 31 January to
\* 1 February marks the 31st in January and the 1st in February, and the
\* request of an employee with no active roster entry marks nothing.
C5_SpansTwoMonths ==
    /\ "ANA" \in list_employees(TRUE)
    /\ "BOB" \notin list_employees(TRUE)
    /\ \E i \in Ids : /\ vacations[i] = Row("ANA", <<2024, 1, 31>>, <<2024, 2, 1>>,
                                           "aprobada", None, "X", Now)
                      /\ Ids \ {i} # {}
                      /\ \A j \in Ids \ {i} : vacations[j].employee = "BOB"
    /\ get_calendar_matrix(2024, 1).matrix["ANA"][31] = "aprobada"
    /\ get_calendar_matrix(2024, 1).matrix["ANA"][30] = None
    /\ get_calendar_matrix(2024, 2).matrix["ANA"][1] = "aprobada"
    /\ get_calendar_matrix(2024, 2).matrix["ANA"][2] = None

\* C6: after create_request, or the form's submit, the unfiltered list_requests()
\* holds a new row with exactly the given fields, status pendiente and null
\* approved_by / approved_at, also when the overlap check was true.
C6_CreateInsertsPending ==
    last.op \in {"create_request", "solicitud_vacaciones"} =>
        /\ last.id \in Range(list_requests(0, 0, None))
        /\ vacations[last.id].employee = last.employee
        /\ vacations[last.id].start_date = last.start_date
        /\ vacations[last.id].end_date = last.end_date
        /\ vacations[last.id].note = last.note
        /\ vacations[last.id].status = "pendiente"
        /\ vacations[last.id].approved_by = None
        /\ vacations[last.id].approved_at = None

\* C6's case: the form was submitted for a range that overlaps an approved or
\* pending request of the same employee, and the new row is in the table.
C6_OverlappingRequestStored ==
    /\ last.op = "solicitud_vacaciones"
    /\ last.warned
    /\ last.id \in Ids
    /\ \E i \in Ids \ {last.id} : vacations[i].employee = last.employee

\* C7: every stored row has one of the three statuses; update_status of an
\* existing row with any other status raises and leaves the table as it was.
C7_InvalidStatusRejected ==
    [][/\ \A i \in DOMAIN vacations' : vacations'[i].status \in Statuses
       /\ (/\ last'.op = "update_status"
           /\ last'.status \notin Statuses
           /\ last'.id \in Ids) => (last'.err /\ vacations' = vacations)]_vars

\* C7's case: update_status with a status outside the CHECK was called on an
\* approved row and raised.
C7_RejectedUpdateOfApprovedRow ==
    /\ last.op = "update_status"
    /\ last.status \notin Statuses
    /\ last.err
    /\ last.id \in Ids
    /\ Target.status = "aprobada"
    /\ Target.approved_by = "X"

\* C8 as stated: a row whose status is aprobada or rechazada keeps that status
\* for as long as it is stored.
C8_StatusOneWay ==
    [][\A i \in Ids \cap DOMAIN vacations' :
          vacations[i].status # "pendiente" =>
              vacations'[i].status = vacations[i].status]_vars

\* C8 as amended: driven through app.py, a row whose status is aprobada or
\* rechazada never has status pendiente again.
C8_NeverBackToPending ==
    [][\A i \in Ids \cap DOMAIN vacations' :
          vacations[i].status # "pendiente" =>
              vacations'[i].status # "pendiente"]_vars

\* C8's case: a manager's panel still lists a row that another manager's
\* update_status has already decided.
C8_StalePanel ==
    /\ last.op = "update_status"
    /\ last.id \in Ids
    /\ Target.status # "pendiente"
    /\ \E m \in Managers : m # last.approver /\ last.id \in pending[m]

\* C9 as stated: every row removed from the table had status pendiente.
C9_OnlyPendingRemoved ==
    [][\A i \in Ids \ DOMAIN vacations' : vacations[i].status = "pendiente"]_vars

\* C9 as amended: a row removed while aprobada or rechazada was removed by
\* delete_request called on it with no employee (None or the empty string).
C9_DecidedRemovedOnlyWithoutEmployee ==
    [][\A i \in Ids \ DOMAIN vacations' :
          \/ vacations[i].status = "pendiente"
          \/ /\ last'.op = "delete_request"
             /\ last'.id = i
             /\ last'.employee \in {None, ""}]_vars

\* C9's case: delete_request with the owner as employee was called on a row
\* that is no longer stored, while another row of that owner, decided, remains.
C9_OwnerDeleted ==
    /\ last.op = "delete_request"
    /\ last.employee \in Employees
    /\ last.id \in 1 .. seq
    /\ last.id \notin Ids
    /\ \E i \in Ids : /\ vacations[i].employee = last.employee
                      /\ vacations[i].status # "pendiente"

\* C10: where several rows of an active employee cover a day of the month, the
\* cell shows the status of the one with the highest id.
C10_LastInsertedWins ==
    \A year \in QueryYears, month \in QueryMonths :
        LET r == get_calendar_matrix(year, month)
        IN \A emp \in DOMAIN r.matrix, d \in 1 .. r.days :
              LET c == Covering(emp, year, month, d)
              IN c # {} =>
                    \E i \in c : /\ \A j \in c : j <= i
                                 /\ r.matrix[emp][d] = vacations[i].status

\* C10's case: an approved row and a later pending row of the same active
\* employee both cover 31 January, and the cell shows pendiente.
C10_TwoRowsOneDay ==
    /\ "ANA" \in list_employees(TRUE)
    /\ \E i \in Ids, j \in Ids :
          /\ i < j
          /\ vacations[i].employee = "ANA" /\ vacations[j].employee = "ANA"
          /\ vacations[i].status = "aprobada" /\ vacations[j].status = "pendiente"
          /\ Covers(i, <<2024, 1, 31>>) /\ Covers(j, <<2024, 1, 31>>)
    /\ get_calendar_matrix(2024, 1).matrix["ANA"][31] = "pendiente"

====
